---- MODULE Spec2Model ----
(***************************************************************************)
(* arrcomp: the arr! macro (src/src/lib.rs, lines 98-157).                 *)
(*                                                                         *)
(* One use site  arr![BODY, for PAT in INPUT (, if COND)*; len N]  is      *)
(* modelled as a state machine: the macro matcher picks an arm, the        *)
(* expansion of that arm creates the cursor, checks the length, and then   *)
(* std::array::from_fn calls the closure N times.  A body that is itself   *)
(* an arr! invocation runs as a new frame on top of the enclosing one.     *)
(***************************************************************************)
EXTENDS Integers, Sequences, FiniteSets, TLC

VARIABLES frames, status, msg, result

vars == <<frames, status, msg, result>>

(* ------------------------------ bounds --------------------------------- *)

MaxLen == 2

MaxN == 2

MaxFilters == 2

(* --------------------------- value domains ----------------------------- *)

Vals == {-1, 0, 1, 2}

Preds == {"x % 2 == 0", "x > 0"}

Bodies == {"x", "x + 1", "_", "arr![y; len 1]", "arr![y, if y > 0; len 1]"}

SeqsUpTo(S, n) == UNION {[1..k -> S] : k \in 0..n}

Some(v) == <<"Some", v>>

None == <<"None">>

NoMsg == [kind |-> "none", expected |-> 0, got |-> 0]

(* ------------- variants of the macro a slip would produce -------------- *)

\* `||` written for `&&`
OrCombine(acc, r) == acc \/ r

\* the source walked from its far end
NextElemReversed(items, cursor) == items[Len(items) - cursor]

\* a filtered-out slot dropped instead of stored (filter-then-collect)
StoreAbsentCompacting(out) == out

\* `<` written for `!=` in the length check
OnlyShorterMismatch(l, n) == l < n

\* then_some($ex) written for then(|| {$ex})
ThenSomeEager(pass) == TRUE

\* every expansion advancing the outermost cursor
SharedCursorOwner(depth) == 1

\* `&` written for `&&`
NoShortCircuit(acc) == TRUE

\* unwrap() written for unwrap_or_default()
UnwrapOnExhausted == "panic"

(* ------------------------- pieces of the macro ------------------------- *)

\* $ex:stmt accepts any token that is not a closing delimiter, the
\* underscore included (it parses as the underscore expression).
StmtFragment(body) == body \in Bodies

Arm1Matches(s) == StmtFragment(s.body) /\ Len(s.filters) >= 1

Arm2Matches(s) == StmtFragment(s.body) /\ Len(s.filters) = 0

Arm3Matches(s) == s.body = "_"

\* macro_rules! tries the arms in the order they are written.
MatchArm(s) ==
    IF Arm1Matches(s) THEN 1
    ELSE IF Arm2Matches(s) THEN 2
    ELSE IF Arm3Matches(s) THEN 3
    ELSE 0

\* `_` is not an expression: an expansion of arm 1 or arm 2 that puts it
\* where $ex stands does not compile.
ExpansionCompiles(s) == s.body # "_"

\* let $x = ... : the names the pattern binds.
Bind(pat, e) == IF pat = "x" THEN e ELSE e[3]

\* Default::default() of the element type.
DefaultElem(pat) == IF pat = "x" THEN 0 ELSE <<0, 0, 0>>

\* i32 `%`: the remainder takes the sign of the dividend.
Rem(a, b) == IF a >= 0 THEN a % b ELSE -((-a) % b)

Pred(p, x) == IF p = "x % 2 == 0" THEN Rem(x, 2) = 0 ELSE x > 0

IsNested(body) == body \in {"arr![y; len 1]", "arr![y, if y > 0; len 1]"}

\* The value of a body that is a plain expression.
BodyVal(body, x) == IF body = "x + 1" THEN x + 1 ELSE x

\* The use site a nested body expands to, with x bound by the outer frame.
InnerSpec(body, x) ==
    [body    |-> "x",
     pat     |-> "(_, _, y)",
     filters |-> IF body = "arr![y; len 1]" THEN <<>> ELSE <<"x > 0">>,
     N       |-> 1,
     items   |-> << <<1, 33, x>> >>,
     pure    |-> TRUE]

\* What one evaluation of `$input.len()` can return.
ReportedLens(s) == IF s.pure THEN {Len(s.items)} ELSE 0..MaxLen

LengthMismatch(l, n) == l # n

\* iter.next(): the element at the cursor, if any is left.
Exhausted(items, cursor) == cursor >= Len(items)

NextElem(items, cursor) == items[cursor + 1]

\* unwrap_or_default(): what an exhausted cursor does to the construction.
OnExhausted == "default"

\* The frame whose cursor a frame's `iter.next()` advances: its own.
CursorOwner(depth) == depth

\* `true $(&& $cond)*`
CondsInit == TRUE

AndCombine(acc, r) == acc /\ r

\* && evaluates its right operand only when the left one is true.
ContinueAfter(acc) == acc

\* bool::then(f) calls f only when the bool is true.
ThenEvaluates(pass) == pass

ThenValue(pass, v) == IF pass THEN Some(v) ELSE None

\* A slot whose filters failed is stored as None at its own index.
StoreAbsent(out) == Append(out, None)

(* ------------------------------ frames --------------------------------- *)

NewFrame(s) ==
    [spec       |-> s,
     pc         |-> "match",
     arm        |-> 0,
     hasIter    |-> FALSE,
     cursor     |-> 0,
     i          |-> 0,
     x          |-> 0,
     pass       |-> TRUE,
     ci         |-> 0,
     out        |-> <<>>,
     inputEvals |-> 0,
     lens       |-> <<>>,
     pulled     |-> <<>>,
     condLog    |-> <<>>,
     bodyEvals  |-> <<>>]

Depth == Len(frames)

Top == frames[Depth]

SetTop(f) == [frames EXCEPT ![Depth] = f]

\* from_fn calls the closure for slot 0, 1, ..., N-1 and then returns.
NextSlotPc(f) == IF f.i < f.spec.N THEN "pull" ELSE "ret"

UseSites ==
    [body    : Bodies,
     pat     : {"x"},
     filters : SeqsUpTo(Preds, MaxFilters),
     N       : 0..MaxN,
     items   : SeqsUpTo(Vals, MaxLen),
     pure    : BOOLEAN]

Init ==
    /\ \E s \in UseSites : frames = <<NewFrame(s)>>
    /\ status = "running"
    /\ msg = NoMsg
    /\ result = <<>>

(* ------------------------------ actions -------------------------------- *)

\* macro_rules! arr: the matcher picks the arm and the arm is expanded.
Match ==
    /\ status = "running"
    /\ Top.pc = "match"
    /\ LET f == Top
           a == MatchArm(f.spec)
       IN  IF a = 3
           THEN /\ frames' = SetTop([f EXCEPT !.arm = a, !.pc = "panicked"])
                /\ status' = "panic"
                /\ msg' = [kind |-> "placeholder", expected |-> 0, got |-> 0]
           ELSE IF ~ExpansionCompiles(f.spec)
           THEN /\ frames' = SetTop([f EXCEPT !.arm = a, !.pc = "rejected"])
                /\ status' = "compile_error"
                /\ msg' = msg
           ELSE /\ frames' = SetTop([f EXCEPT !.arm = a, !.pc = "iter"])
                /\ status' = status
                /\ msg' = msg
    /\ UNCHANGED result

\* let mut iter = $input.into_iter();
CreateCursor ==
    /\ status = "running"
    /\ Top.pc = "iter"
    /\ frames' = SetTop([Top EXCEPT !.inputEvals = @ + 1,
                                    !.hasIter = TRUE,
                                    !.cursor = 0,
                                    !.pc = "check"])
    /\ UNCHANGED <<status, msg, result>>

\* if $input.len() != $len
LengthCheck ==
    /\ status = "running"
    /\ Top.pc = "check"
    /\ \E l \in ReportedLens(Top.spec) :
         frames' = SetTop([Top EXCEPT
                             !.inputEvals = @ + 1,
                             !.lens = Append(@, l),
                             !.pc = IF LengthMismatch(l, Top.spec.N)
                                    THEN "fmt"
                                    ELSE NextSlotPc(Top)])
    /\ UNCHANGED <<status, msg, result>>

\* format!("Expected {} elements, got {}.", $len, $input.len()); panic!
MismatchPanic ==
    /\ status = "running"
    /\ Top.pc = "fmt"
    /\ \E l \in ReportedLens(Top.spec) :
         /\ frames' = SetTop([Top EXCEPT !.inputEvals = @ + 1,
                                         !.lens = Append(@, l),
                                         !.pc = "panicked"])
         /\ msg' = [kind |-> "mismatch", expected |-> Top.spec.N, got |-> l]
    /\ status' = "panic"
    /\ UNCHANGED result

\* let $x = iter.next().unwrap_or_default();
Pull ==
    /\ status = "running"
    /\ Top.pc = "pull"
    /\ LET f     == Top
           ex    == Exhausted(f.spec.items, f.cursor)
           owner == CursorOwner(Depth)
       IN  IF ex /\ OnExhausted # "default"
           THEN /\ frames' = SetTop([f EXCEPT !.i = @ + 1, !.pc = "panicked"])
                /\ status' = "panic"
                /\ msg' = [kind |-> "unwrap", expected |-> 0, got |-> 0]
           ELSE LET e  == IF ex THEN DefaultElem(f.spec.pat)
                                ELSE NextElem(f.spec.items, f.cursor)
                    f2 == [f EXCEPT
                             !.i = @ + 1,
                             !.x = Bind(f.spec.pat, e),
                             !.pulled = Append(@, e),
                             !.condLog = Append(@, <<>>),
                             !.bodyEvals = Append(@, 0),
                             !.pass = CondsInit,
                             !.ci = 1,
                             !.pc = IF f.arm = 1 THEN "cond" ELSE "body"]
                    g  == SetTop(f2)
                IN  /\ frames' = [g EXCEPT ![owner].cursor =
                                      IF ex THEN @ ELSE @ + 1]
                    /\ status' = status
                    /\ msg' = msg
    /\ UNCHANGED result

\* one operand of  true $(&& $cond)*
EvalCond ==
    /\ status = "running"
    /\ Top.pc = "cond"
    /\ LET f   == Top
           r   == Pred(f.spec.filters[f.ci], f.x)
           acc == AndCombine(f.pass, r)
           go  == ContinueAfter(acc) /\ f.ci < Len(f.spec.filters)
       IN  frames' = SetTop([f EXCEPT
                               !.pass = acc,
                               !.condLog[f.i] = Append(@, <<f.ci, r>>),
                               !.ci = IF go THEN @ + 1 ELSE @,
                               !.pc = IF go THEN "cond" ELSE "then"])
    /\ UNCHANGED <<status, msg, result>>

\* ( ... ).then(|| {$ex}) : the closure runs or the slot is None
Then ==
    /\ status = "running"
    /\ Top.pc = "then"
    /\ LET f == Top
       IN  IF ThenEvaluates(f.pass)
           THEN frames' = SetTop([f EXCEPT !.pc = "body"])
           ELSE frames' = SetTop([f EXCEPT !.out = StoreAbsent(@),
                                           !.pc = NextSlotPc(f)])
    /\ UNCHANGED <<status, msg, result>>

\* the value a slot gets from the value v of its body
SlotValue(f, v) == IF f.arm = 1 THEN ThenValue(f.pass, v) ELSE v

\* $ex, a plain expression
EvalBody ==
    /\ status = "running"
    /\ Top.pc = "body"
    /\ ~IsNested(Top.spec.body)
    /\ LET f == Top
           v == BodyVal(f.spec.body, f.x)
       IN  frames' = SetTop([f EXCEPT
                               !.bodyEvals[f.i] = @ + 1,
                               !.out = Append(@, SlotValue(f, v)),
                               !.pc = NextSlotPc(f)])
    /\ UNCHANGED <<status, msg, result>>

\* $ex, itself an arr! invocation: its expansion starts running
EnterNested ==
    /\ status = "running"
    /\ Top.pc = "body"
    /\ IsNested(Top.spec.body)
    /\ LET f == Top
       IN  frames' = Append(SetTop([f EXCEPT !.bodyEvals[f.i] = @ + 1,
                                             !.pc = "wait"]),
                            NewFrame(InnerSpec(f.spec.body, f.x)))
    /\ UNCHANGED <<status, msg, result>>

\* from_fn of a nested expansion returns its array to the enclosing closure
ReturnToOuter ==
    /\ status = "running"
    /\ Depth > 1
    /\ Top.pc = "ret"
    /\ LET o == frames[Depth - 1]
           v == Top.out
       IN  frames' = [SubSeq(frames, 1, Depth - 1) EXCEPT ![Depth - 1] =
                        [o EXCEPT !.out = Append(@, SlotValue(o, v)),
                                  !.pc = NextSlotPc(o)]]
    /\ UNCHANGED <<status, msg, result>>

\* from_fn returns the array to the caller of arr!
ReturnToCaller ==
    /\ status = "running"
    /\ Depth = 1
    /\ Top.pc = "ret"
    /\ status' = "done"
    /\ result' = Top.out
    /\ UNCHANGED <<frames, msg>>

Next ==
    \/ Match
    \/ CreateCursor
    \/ LengthCheck
    \/ MismatchPanic
    \/ Pull
    \/ EvalCond
    \/ Then
    \/ EvalBody
    \/ EnterNested
    \/ ReturnToOuter
    \/ ReturnToCaller

Spec == Init /\ [][Next]_vars

(* ----------------------- vocabulary of the claims ---------------------- *)

Outer == frames[1]

Min(a, b) == IF a < b THEN a ELSE b

\* The frames of expansions that have built all their slots.
Returning == {k \in 1..Depth : frames[k].pc = "ret"}

\* all the filters of a use site hold of a bound value (tests: the
\* right-hand sides  if cond(x) { Some(..) } else { None })
AllPass(filters, x) == \A k \in 1..Len(filters) : Pred(filters[k], x)

\* the value the tests expect of a body, nested bodies included
Denote(body, x) ==
    IF body = "arr![y; len 1]" THEN <<x>>
    ELSE IF body = "arr![y, if y > 0; len 1]"
         THEN << IF x > 0 THEN Some(x) ELSE None >>
    ELSE IF body = "x + 1" THEN x + 1
    ELSE x

\* the slot a filter/map pipeline gives for one element
MapSlot(s, e) ==
    LET x == Bind(s.pat, e)
    IN  IF Len(s.filters) = 0 THEN Denote(s.body, x)
        ELSE IF AllPass(s.filters, x) THEN Some(Denote(s.body, x))
        ELSE None

(* -------------------------------- C1 ----------------------------------- *)

\* C1: in the filtered form, when an expansion has built its array, slot i
\* is Some(f(S[i])) if every filter holds of the i-th element of the source
\* S and None otherwise, for every index i that S has an element for.
C1_FilteredPositional ==
    \A k \in Returning :
        LET f == frames[k]
            s == f.spec
        IN  f.arm = 1 =>
              /\ Len(f.out) = s.N
              /\ \A i \in 1..Min(s.N, Len(s.items)) :
                    /\ (f.out[i] # None) <=>
                          AllPass(s.filters, Bind(s.pat, s.items[i]))
                    /\ f.out[i] = MapSlot(s, s.items[i])

C1_Witness ==
    /\ status = "done"
    /\ Outer.arm = 1
    /\ Outer.spec.N = 2
    /\ Len(Outer.spec.items) = 2
    /\ result[1] = None
    /\ result[2] = Some(Outer.spec.items[2] + 1)
    /\ Outer.spec.body = "x + 1"

(* -------------------------------- C2 ----------------------------------- *)

\* C2: in the unfiltered form the array is the in-order map of the body
\* over the source: slot i is f(S[i]), a plain value; with the body x and
\* the pattern x the array is S itself.
C2_UnfilteredMap ==
    \A k \in Returning :
        LET f == frames[k]
            s == f.spec
        IN  f.arm = 2 =>
              /\ Len(f.out) = s.N
              /\ \A i \in 1..Min(s.N, Len(s.items)) :
                    f.out[i] = Denote(s.body, Bind(s.pat, s.items[i]))
              /\ (s.body = "x" /\ s.pat = "x" /\ Len(s.items) = s.N)
                    => f.out = s.items

C2_Witness ==
    /\ status = "done"
    /\ Outer.arm = 2
    /\ Outer.spec.body = "x"
    /\ Outer.spec.N = 2
    /\ result = Outer.spec.items
    /\ result[1] # result[2]

(* -------------------------------- C3 ----------------------------------- *)

\* C3: an expansion that returns an array returns exactly N slots, and at
\* every moment of the construction the slots built so far sit at the
\* index of the element they were built from: slot i is None exactly when
\* the filters fail on the i-th element pulled, never a later element's
\* value moved down.
C3_LengthNoCompaction ==
    /\ status = "done" => Len(result) = Outer.spec.N
    /\ \A k \in 1..Depth :
          LET f == frames[k]
              s == f.spec
          IN  /\ f.pc = "ret" => Len(f.out) = s.N
              /\ Len(f.out) <= f.i
              /\ f.arm = 1 =>
                    \A i \in 1..Len(f.out) :
                       (f.out[i] = None) <=>
                          ~AllPass(s.filters, Bind(s.pat, f.pulled[i]))

C3_Witness ==
    /\ status = "done"
    /\ Outer.spec.N = 2
    /\ Len(result) = 2
    /\ Outer.arm = 1
    /\ result[1] = None
    /\ result[2] # None

(* -------------------------------- C4 ----------------------------------- *)

\* C4: in either form, once `$input.len()` has reported a length other than
\* N the expansion only panics: the cursor is never advanced, no filter and
\* no body runs, no slot is built and nothing is returned, and the panic
\* message carries N and the length `$input.len()` reports; an expansion
\* that pulls an element has made the check once and passed it.
C4_MismatchAborts ==
    \A k \in 1..Depth :
        LET f == frames[k]
        IN  /\ (Len(f.lens) >= 1 /\ f.lens[1] # f.spec.N) =>
                  /\ f.arm \in {1, 2}
                  /\ f.pc \in {"fmt", "panicked"}
                  /\ f.hasIter /\ f.cursor = 0 /\ f.i = 0
                  /\ f.pulled = <<>> /\ f.condLog = <<>>
                  /\ f.bodyEvals = <<>> /\ f.out = <<>>
                  /\ status # "done" /\ result = <<>>
                  /\ f.pc = "panicked" =>
                        /\ status = "panic"
                        /\ msg = [kind     |-> "mismatch",
                                  expected |-> f.spec.N,
                                  got      |-> f.lens[2]]
                        /\ f.spec.pure => msg.got = f.lens[1]
            /\ (f.i > 0 \/ f.pc = "ret") => f.lens = <<f.spec.N>>

C4_Witness ==
    /\ status = "panic"
    /\ msg.kind = "mismatch"
    /\ Outer.spec.pure
    /\ Len(Outer.spec.items) = msg.got
    /\ msg.got > msg.expected
    /\ Outer.arm = 1

(* -------------------------------- C5 ----------------------------------- *)

\* C5: a use site whose body is `_` is matched by the placeholder arm and
\* panics with the placeholder message, with or without filters, before a
\* cursor exists and without an array.
C5_PlaceholderRejected ==
    (Outer.spec.body = "_" /\ Outer.pc # "match") =>
        /\ Outer.arm = 3
        /\ status = "panic"
        /\ msg.kind = "placeholder"
        /\ ~Outer.hasIter
        /\ result = <<>>

(* -------------------------------- C6 ----------------------------------- *)

\* C6: the body runs at most once per slot; in the filtered form it has run
\* once for a finished slot whose filters all hold and not at all for one
\* where a filter fails, in the unfiltered form once for every finished
\* slot, so N times when the array is returned.
C6_BodyEvalCount ==
    \A k \in 1..Depth :
        LET f == frames[k]
            s == f.spec
        IN  /\ Len(f.bodyEvals) = f.i
            /\ f.pc = "ret" => f.i = s.N
            /\ \A i \in 1..f.i :
                  LET pass == AllPass(s.filters, Bind(s.pat, f.pulled[i]))
                  IN  /\ f.bodyEvals[i] \in {0, 1}
                      /\ (f.arm = 1 /\ ~pass) => f.bodyEvals[i] = 0
                      /\ (i <= Len(f.out) /\ (f.arm = 2 \/ pass))
                            => f.bodyEvals[i] = 1

C6_Witness ==
    /\ status = "done"
    /\ Outer.arm = 1
    /\ Outer.spec.N = 2
    /\ Outer.bodyEvals = <<0, 1>>
    /\ result[1] = None

(* -------------------------------- C7 ----------------------------------- *)

\* C7: a nested expansion starts with no cursor of its own made yet, no
\* step taken while it runs moves the enclosing cursor or the enclosing
\* slot index, it returns only after building all its slots, the slot the
\* enclosing expansion then stores is the inner array built from the
\* bindings of its current element, and the array returned in the end holds
\* at slot i the inner array of the i-th outer element.
C7_NestedStep ==
    /\ (Depth >= 2 \/ Len(frames') >= 2) =>
          /\ frames'[1].cursor = frames[1].cursor
          /\ frames'[1].i = frames[1].i
          /\ frames'[1].x = frames[1].x
    /\ (Depth = 1 /\ Len(frames') = 2) =>
          /\ ~frames'[2].hasIter
          /\ frames'[2].cursor = 0
          /\ frames'[2].i = 0
    /\ (Depth = 2 /\ Len(frames') = 1) =>
          /\ frames[2].pc = "ret"
          /\ frames[2].i = frames[2].spec.N
          /\ frames[2].cursor = Len(frames[2].spec.items)
          /\ Len(frames'[1].out) = frames[1].i
          /\ frames'[1].out[frames[1].i] =
                (IF frames[1].arm = 1
                 THEN Some(Denote(frames[1].spec.body, frames[1].x))
                 ELSE Denote(frames[1].spec.body, frames[1].x))
    /\ (status' = "done" /\ IsNested(Outer.spec.body)) =>
          /\ Len(result') = Outer.spec.N
          /\ \A i \in 1..Min(Outer.spec.N, Len(Outer.spec.items)) :
                result'[i] = MapSlot(Outer.spec, Outer.spec.items[i])

\* C7: nested comprehensions share no cursor state: every step of every
\* behaviour satisfies C7_NestedStep.
C7_NestedOwnCursor == [][C7_NestedStep]_vars

C7_Witness ==
    /\ status = "done"
    /\ Outer.spec.body = "arr![y, if y > 0; len 1]"
    /\ Outer.arm = 1
    /\ Outer.spec.N = 2
    /\ Outer.spec.items = <<2, 1>>
    /\ result = << Some(<< Some(2) >>), None >>

(* -------------------------------- C8 ----------------------------------- *)

\* C8: the filters of a slot run after its element is pulled and bound, in
\* the order written, each on that element's binding; a filter runs only if
\* every earlier one of the slot was true; the slot is Some exactly when
\* all of them ran and were true.
C8_FilterOrder ==
    \A k \in 1..Depth :
        LET f == frames[k]
            s == f.spec
        IN  /\ Len(f.condLog) = Len(f.pulled)
            /\ \A i \in 1..Len(f.condLog) :
                  LET log == f.condLog[i]
                  IN  /\ Len(log) <= Len(s.filters)
                      /\ f.arm = 2 => log = <<>>
                      /\ \A j \in 1..Len(log) :
                            /\ log[j][1] = j
                            /\ log[j][2] =
                                  Pred(s.filters[j], Bind(s.pat, f.pulled[i]))
                            /\ j > 1 => log[j - 1][2]
                      /\ (f.arm = 1 /\ i <= Len(f.out)) =>
                            /\ Len(log) >= 1
                            /\ (f.out[i] # None) <=>
                                  /\ Len(log) = Len(s.filters)
                                  /\ \A j \in 1..Len(log) : log[j][2]
                            /\ (f.out[i] = None) => ~log[Len(log)][2]

C8_Witness ==
    /\ status = "done"
    /\ Outer.spec.filters = <<"x % 2 == 0", "x > 0">>
    /\ Outer.spec.N = 2
    /\ Outer.pulled = <<1, 2>>
    /\ Outer.condLog = << << <<1, FALSE>> >>, << <<1, TRUE>>, <<2, TRUE>> >> >>

(* -------------------------------- C9 ----------------------------------- *)

\* C9: after a passed length check nothing panics; a slot pulled from an
\* exhausted cursor is built from the default of the element type, bound
\* and filtered like any element, and the array still has N slots.
C9_DefaultFill ==
    /\ status = "panic" => msg.kind \in {"mismatch", "placeholder"}
    /\ \A k \in 1..Depth :
          LET f == frames[k]
              s == f.spec
          IN  /\ f.pc = "panicked" => f.i = 0
              /\ f.pc = "ret" => (Len(f.out) = s.N /\ Len(f.pulled) = s.N)
              /\ f.cursor = Min(f.i, Len(s.items))
              /\ \A i \in 1..Len(f.pulled) :
                    i > Len(s.items) =>
                       /\ f.pulled[i] = DefaultElem(s.pat)
                       /\ i <= Len(f.out) =>
                             f.out[i] = MapSlot(s, DefaultElem(s.pat))

C9_Witness ==
    /\ status = "done"
    /\ Outer.arm = 1
    /\ Outer.spec.N = 2
    /\ Outer.spec.items = <<1>>
    /\ Outer.spec.body = "x + 1"
    /\ Outer.spec.filters = <<"x % 2 == 0">>
    /\ result = <<None, Some(1)>>

(* -------------------------------- C10 ---------------------------------- *)

\* C10: a construction that has returned or panicked on a mismatch has
\* evaluated `$input` exactly once, and the length it compared with N is
\* the length of the sequence its cursor walks.
C10_SingleEvaluation ==
    (status = "done" \/ (status = "panic" /\ msg.kind = "mismatch")) =>
        /\ Outer.inputEvals = 1
        /\ Outer.lens[1] = Len(Outer.spec.items)

====
